---------------------------- MODULE Spec2Model ----------------------------
(***************************************************************************)
(* A model of the cosmic-applet-bluetooth coordinator:                     *)
(*   worker.rs  BluetoothWorker (event loop, handlers, spawned tasks)      *)
(*   agent.rs   the pairing-agent callback                                 *)
(*   device.rs  the device record                                          *)
(*   app.rs     the applet model that owns the device cache                *)
(* The platform service (bluer/BlueZ) is the environment: its device list, *)
(* its powered flag and its device properties are state that environment   *)
(* actions change; a platform query made by a handler may fail.            *)
(***************************************************************************)
EXTENDS Integers, Sequences, FiniteSets, TLC

\* ------------------------------------------------------------------ bounds
Addr == {"a1", "a2"}

MaxOut == 2          \* room in the outbound event channel
MaxReq == 1          \* requests in flight from the applet to the worker
MaxListeners == 2    \* running listener tasks per address
MaxChallenges == 2   \* pairing challenges the platform raises in a run
MaxConnects == 2     \* connect flows spawned in a run
MaxUpdates == 1      \* forwarded device updates waiting in device_rx
MaxNotes == 1        \* powered notifications waiting in the adapter stream
SysfsIndex == 3      \* the index /sys/class/rfkill gives for the adapter

\* ------------------------------------------------------- program constants
MAX_TRIES == 5
InitialBackoffMs == 500
BackoffCapMs == 10000

VARIABLES
    \* platform service (environment)
    devlist,               \* adapter.device_addresses()
    powered,               \* adapter.is_powered()
    pdev,                  \* per-device properties: connected, paired, battery
    power_notes,           \* PropertyChanged(Powered(v)) waiting in adapter_events
    big_endian,            \* the byte order of the target the applet was built for
    rfkill_dev,            \* the last write to /dev/rfkill: arguments and bytes
    \* BluetoothWorker
    wpc,                   \* "init" | "running" | "failed" | "terminated"
    device_handles,        \* keys of the listener table
    listener_tasks,        \* number of running device_listener tasks per address
    discovery_events,      \* TRUE iff discovery_events is Some
    confirmation_senders,  \* address -> id of the stored acceptor, 0 for none
    requests,              \* WorkerRequest channel
    output,                \* WorkerEvent channel
    device_rx,             \* (address, DeviceUpdate) channel
    agent_rx,              \* AgentEvent channel (acceptor ids)
    connects,              \* the spawned connect/cancel tasks
    \* pairing agent
    acceptors,             \* one record per request_confirmation call
    \* CosmicBluetoothApplet
    device_map,            \* {} for None, {m} for Some(m)
    enabled,
    worker_tx,             \* TRUE iff worker_tx is Some
    popup,                 \* TRUE iff popup is Some
    app_alive,             \* FALSE after std::process::exit
    \* the step just taken: handler, address, outcome
    last

rfkill_vars == <<big_endian, rfkill_dev>>
platform_vars == <<devlist, powered, pdev, power_notes, rfkill_vars>>
worker_vars == <<wpc, device_handles, listener_tasks, discovery_events,
                 confirmation_senders, requests, output, device_rx, agent_rx, connects>>
app_vars == <<device_map, enabled, worker_tx, popup, app_alive>>
vars == <<devlist, powered, pdev, power_notes, big_endian, rfkill_dev, wpc, device_handles, listener_tasks,
          discovery_events, confirmation_senders, requests, output, device_rx,
          agent_rx, connects, acceptors, device_map, enabled, worker_tx, popup,
          app_alive, last>>

\* ----------------------------------------------------------------- helpers
NoBattery == {}
Some(x) == {x}
None == {}
Unwrap(o) == CHOOSE x \in o : TRUE

Step(h, a, r) == [h |-> h, a |-> a, r |-> r]

\* device_map holds a record for a
CacheHas(a) == device_map # None /\ a \in DOMAIN Unwrap(device_map)

Min(x, y) == IF x <= y THEN x ELSE y

\* BluetoothDevice::from_device: the record built from the platform's properties
FromDevice(a) ==
    [status |-> IF pdev[a].connected THEN "Connected" ELSE "Disconnected",
     battery_percent |-> pdev[a].battery,
     is_paired |-> pdev[a].paired,
     display_code |-> None]

\* WorkerEvent
EvReady(e) == [type |-> "Ready", enabled |-> e]
EvDeviceMap(m) == [type |-> "DeviceMap", map |-> m]
EvDeviceAdded(a, d) == [type |-> "DeviceAdded", addr |-> a, device |-> d]
EvDeviceRemoved(a) == [type |-> "DeviceRemoved", addr |-> a]
EvConnectFailed(a) == [type |-> "ConnectFailed", addr |-> a]
EvDeviceUpdate(a, u) == [type |-> "DeviceUpdate", addr |-> a, update |-> u]
EvEnabled(v) == [type |-> "Enabled", value |-> v]
EvError == [type |-> "Error"]
EvConfirmCode(c, a) == [type |-> "ConfirmCode", code |-> c, addr |-> a]

\* WorkerRequest
ReqSetDiscovery(v) == [type |-> "SetDiscovery", value |-> v]
ReqConnectDevice(a) == [type |-> "ConnectDevice", addr |-> a]
ReqDisconnectDevice(a) == [type |-> "DisconnectDevice", addr |-> a]
ReqCancelConnect(a) == [type |-> "CancelConnect", addr |-> a]
ReqSetEnabled(v) == [type |-> "SetEnabled", value |-> v]
ReqConfirmCode(a, v) == [type |-> "ConfirmCode", addr |-> a, value |-> v]

\* output.send(..).await: the sender waits while the channel is full
Room(n) == Len(output) + n <= MaxOut

\* the applet's send on worker_tx: delivered while the worker's receiver lives
SendRequest(r) ==
    IF wpc \in {"init", "running"} THEN Append(requests, r) ELSE requests


\* ------------------------------------------------------------------- Init
NoSender == 0

Start ==
    /\ devlist \in SUBSET Addr
    /\ powered \in BOOLEAN
    /\ pdev = [a \in Addr |-> [connected |-> FALSE, paired |-> FALSE, battery |-> NoBattery]]
    /\ power_notes = <<>>
    /\ rfkill_dev = None
    /\ wpc = "init"
    /\ device_handles = {}
    /\ listener_tasks = [a \in Addr |-> 0]
    /\ discovery_events = FALSE
    /\ confirmation_senders = [a \in Addr |-> NoSender]
    /\ requests = <<>>
    /\ output = <<>>
    /\ device_rx = <<>>
    /\ agent_rx = <<>>
    /\ connects = <<>>
    /\ acceptors = <<>>
    /\ device_map = None
    /\ enabled = FALSE
    /\ worker_tx = FALSE
    /\ popup = FALSE
    /\ app_alive = TRUE
    /\ last = Step("Init", "-", "-")

\* a build for a little-endian target
Init == Start /\ big_endian = FALSE

\* a build for either byte order
InitAnyTarget == Start /\ big_endian \in BOOLEAN

\* ------------------------------------------------- worker: start and stop
\* the loop is waiting in listen (and the process has not exited)
Running == wpc = "running" /\ app_alive

\* create_device_maps: one record and one spawned listener per enumerated
\* device that passes the name/icon filter (S is that set)
MapOfDeviceList(S) == [a \in devlist |-> FromDevice(a)]

MapOf(S) == [a \in S |-> FromDevice(a)]

SpawnedFor(S) == [a \in Addr |-> IF a \in S THEN listener_tasks[a] + 1 ELSE listener_tasks[a]]

CanSpawn(S) == \A a \in S : listener_tasks[a] < MaxListeners

\* a replaced sender that stays open
DropSendersKeepsOpen(ids) == acceptors

\* a oneshot sender that is dropped unanswered closes its channel
DropSenders(ids) ==
    [i \in DOMAIN acceptors |->
        IF i \in ids /\ acceptors[i].chan = "pending"
        THEN [acceptors[i] EXCEPT !.chan = "dropped"]
        ELSE acceptors[i]]

StoredSenders == {confirmation_senders[a] : a \in Addr} \ {NoSender}

QueuedSenders == {agent_rx[i] : i \in DOMAIN agent_rx}

\* run: a failed iteration sends Error and returns; the worker and every
\* channel end and table it owns are dropped (spawned tasks are detached)
TerminateRestartsInPlace(h, a, r) ==
    /\ Room(1)
    /\ output' = Append(output, EvError)
    /\ last' = Step(h, a, r)
    /\ UNCHANGED <<wpc, device_handles, discovery_events, confirmation_senders,
                   acceptors, requests, device_rx, agent_rx, listener_tasks, connects>>

TerminateWith(h, a, r) ==
    /\ Room(1)
    /\ output' = Append(output, EvError)
    /\ wpc' = "terminated"
    /\ device_handles' = {}
    /\ discovery_events' = FALSE
    /\ confirmation_senders' = [x \in Addr |-> NoSender]
    /\ acceptors' = DropSenders(StoredSenders \cup QueuedSenders)
    /\ requests' = <<>>
    /\ device_rx' = <<>>
    /\ agent_rx' = <<>>
    /\ last' = Step(h, a, r)
    /\ UNCHANGED <<listener_tasks, connects>>

Terminate(h, a) == TerminateWith(h, a, "error")

\* spawn_worker / try_create, setup failing
TryCreateFailsAfterReady ==
    /\ wpc = "init"
    /\ app_alive
    /\ Room(2)
    /\ output' = output \o <<EvReady(powered), EvError>>
    /\ wpc' = "failed"
    /\ last' = Step("TryCreate", "-", "error")
    /\ UNCHANGED <<platform_vars, app_vars, acceptors, device_handles, listener_tasks,
                   discovery_events, confirmation_senders, requests, device_rx,
                   agent_rx, connects>>

TryCreateFails ==
    /\ wpc = "init"
    /\ app_alive
    /\ Room(1)
    /\ output' = Append(output, EvError)
    /\ wpc' = "failed"
    /\ last' = Step("TryCreate", "-", "error")
    /\ UNCHANGED <<platform_vars, app_vars, acceptors, device_handles, listener_tasks,
                   discovery_events, confirmation_senders, requests, device_rx,
                   agent_rx, connects>>

\* a setup that announces Ready and sends no snapshot
TryCreateWithoutSnapshot ==
    /\ wpc = "init"
    /\ app_alive
    /\ Room(2)
    /\ \E S \in SUBSET devlist :
        /\ CanSpawn(S)
        /\ device_handles' = S
        /\ listener_tasks' = SpawnedFor(S)
        /\ output' = output \o <<EvReady(powered)>>
    /\ wpc' = "running"
    /\ last' = Step("TryCreate", "-", "ok")
    /\ UNCHANGED <<platform_vars, app_vars, acceptors, discovery_events,
                   confirmation_senders, requests, device_rx, agent_rx, connects>>

\* spawn_worker / try_create, setup succeeding: Ready, then the snapshot
TryCreate ==
    /\ wpc = "init"
    /\ app_alive
    /\ Room(2)
    /\ \E S \in SUBSET devlist :
        /\ CanSpawn(S)
        /\ device_handles' = S
        /\ listener_tasks' = SpawnedFor(S)
        /\ output' = output \o <<EvReady(powered), EvDeviceMap(MapOf(S))>>
    /\ wpc' = "running"
    /\ last' = Step("TryCreate", "-", "ok")
    /\ UNCHANGED <<platform_vars, app_vars, acceptors, discovery_events,
                   confirmation_senders, requests, device_rx, agent_rx, connects>>

\* --------------------------------------------- worker: adapter events
\* the acceptors after the listener of a was removed: a stored, unanswered
\* acceptor of a is marked (history only: orphaned records that its device
\* went away while it was waiting)
MarkOrphaned(a) ==
    [i \in DOMAIN acceptors |->
        IF i = confirmation_senders[a] /\ acceptors[i].chan = "pending"
        THEN [acceptors[i] EXCEPT !.orphaned = TRUE]
        ELSE acceptors[i]]

\* DeviceRemovedEffect without the device_addresses().contains(&addr) check
DeviceRemovedEffectUnchecked(a) ==
    IF a \in device_handles
    THEN /\ Room(1)
         /\ device_handles' = device_handles \ {a}
         /\ listener_tasks' = [listener_tasks EXCEPT ![a] = @ - 1]
         /\ output' = Append(output, EvDeviceRemoved(a))
         /\ acceptors' = MarkOrphaned(a)
         /\ last' = Step("DeviceRemoved", a, "removed")
         /\ UNCHANGED confirmation_senders
    ELSE /\ last' = Step("DeviceRemoved", a, "unknown")
         /\ UNCHANGED <<device_handles, listener_tasks, output, confirmation_senders,
                        acceptors>>

\* DeviceRemovedEffect that also discards the stored acceptor of the address
DeviceRemovedEffectDropsSender(a) ==
    IF a \in devlist
    THEN /\ last' = Step("DeviceRemoved", a, "present")
         /\ UNCHANGED <<device_handles, listener_tasks, output, confirmation_senders,
                        acceptors>>
    ELSE IF a \in device_handles
    THEN /\ Room(1)
         /\ device_handles' = device_handles \ {a}
         /\ listener_tasks' = [listener_tasks EXCEPT ![a] = @ - 1]
         /\ output' = Append(output, EvDeviceRemoved(a))
         /\ confirmation_senders' = [confirmation_senders EXCEPT ![a] = NoSender]
         /\ acceptors' = DropSenders({confirmation_senders[a]})
         /\ last' = Step("DeviceRemoved", a, "removed")
    ELSE /\ last' = Step("DeviceRemoved", a, "unknown")
         /\ UNCHANGED <<device_handles, listener_tasks, output, confirmation_senders,
                        acceptors>>

\* handle_adapter_event, AdapterEvent::DeviceRemoved(a)
DeviceRemovedEffect(a) ==
    IF a \in devlist
    THEN /\ last' = Step("DeviceRemoved", a, "present")
         /\ UNCHANGED <<device_handles, listener_tasks, output, confirmation_senders,
                        acceptors>>
    ELSE IF a \in device_handles
    THEN /\ Room(1)
         /\ device_handles' = device_handles \ {a}
         /\ listener_tasks' = [listener_tasks EXCEPT ![a] = @ - 1]
         /\ output' = Append(output, EvDeviceRemoved(a))
         /\ acceptors' = MarkOrphaned(a)
         /\ last' = Step("DeviceRemoved", a, "removed")
         /\ UNCHANGED confirmation_senders
    ELSE /\ last' = Step("DeviceRemoved", a, "unknown")
         /\ UNCHANGED <<device_handles, listener_tasks, output, confirmation_senders,
                        acceptors>>

HandleDeviceRemoved(a) ==
    /\ Running
    /\ \/ /\ DeviceRemovedEffect(a)
          /\ UNCHANGED <<wpc, discovery_events, requests, device_rx, agent_rx>>
       \/ Terminate("DeviceRemoved", a)
    /\ UNCHANGED <<platform_vars, app_vars, connects>>

\* DeviceAddedEffect without the device_handles.contains_key(&addr) check
DeviceAddedEffectUnchecked(a, named) ==
    IF ~named
    THEN /\ last' = Step("DeviceAdded", a, "ignored")
         /\ UNCHANGED <<device_handles, listener_tasks, output>>
    ELSE /\ Room(1)
         /\ listener_tasks[a] < MaxListeners
         /\ device_handles' = device_handles \cup {a}
         /\ listener_tasks' = [listener_tasks EXCEPT ![a] = @ + 1]
         /\ output' = Append(output, EvDeviceAdded(a, FromDevice(a)))
         /\ last' = Step("DeviceAdded", a, "added")

\* handle_adapter_event, AdapterEvent::DeviceAdded(a); named is the result of
\* device.name().await?.is_some()
DeviceAddedEffect(a, named) ==
    IF ~named \/ a \in device_handles
    THEN /\ last' = Step("DeviceAdded", a, "ignored")
         /\ UNCHANGED <<device_handles, listener_tasks, output>>
    ELSE /\ Room(1)
         /\ listener_tasks[a] < MaxListeners
         /\ device_handles' = device_handles \cup {a}
         /\ listener_tasks' = [listener_tasks EXCEPT ![a] = @ + 1]
         /\ output' = Append(output, EvDeviceAdded(a, FromDevice(a)))
         /\ last' = Step("DeviceAdded", a, "added")

HandleDeviceAdded(a) ==
    /\ Running
    /\ \/ /\ \E named \in BOOLEAN : DeviceAddedEffect(a, named)
          /\ UNCHANGED <<wpc, discovery_events, confirmation_senders, requests,
                         device_rx, agent_rx, acceptors>>
       \/ Terminate("DeviceAdded", a)
    /\ UNCHANGED <<platform_vars, app_vars, connects>>

\* listen: the adapter_events arm and the discovery_events arm share the handler
AdapterDeviceRemoved(a) == HandleDeviceRemoved(a)

DiscoveryDeviceRemoved(a) == discovery_events /\ HandleDeviceRemoved(a)

AdapterDeviceAdded(a) == HandleDeviceAdded(a)

DiscoveryDeviceAdded(a) == discovery_events /\ HandleDeviceAdded(a)

\* handle_adapter_event, PropertyChanged(Powered(v))
AdapterPowered ==
    /\ Running
    /\ power_notes # <<>>
    /\ Room(1)
    /\ output' = Append(output, EvEnabled(Head(power_notes)))
    /\ power_notes' = Tail(power_notes)
    /\ last' = Step("Powered", "-", "ok")
    /\ UNCHANGED <<devlist, powered, pdev, rfkill_vars, app_vars, acceptors, wpc, device_handles,
                   listener_tasks, discovery_events, confirmation_senders, requests,
                   device_rx, agent_rx, connects>>


\* ------------------------------------------------ worker: power requests
PopRequest(t) ==
    /\ Running
    /\ requests # <<>>
    /\ Head(requests).type = t

\* the platform's powered flag changes and it notifies the adapter stream
SetPlatformPower(v) ==
    /\ powered' = v
    /\ IF powered = v
       THEN power_notes' = power_notes
       ELSE /\ Len(power_notes) < MaxNotes
            /\ power_notes' = Append(power_notes, v)

\* SetDiscovery that leaves the stream alone while the adapter is unpowered
HandleSetDiscoveryWhenPowered ==
    /\ PopRequest("SetDiscovery")
    /\ \/ /\ discovery_events' = IF powered THEN Head(requests).value ELSE discovery_events
          /\ requests' = Tail(requests)
          /\ last' = Step("SetDiscovery", "-", IF Head(requests).value THEN "on" ELSE "off")
          /\ UNCHANGED <<wpc, device_handles, listener_tasks, confirmation_senders,
                         output, device_rx, agent_rx, acceptors>>
       \/ /\ Head(requests).value
          /\ Terminate("SetDiscovery", "-")
    /\ UNCHANGED <<platform_vars, app_vars, connects>>

\* handle_request, WorkerRequest::SetDiscovery(v)
HandleSetDiscovery ==
    /\ PopRequest("SetDiscovery")
    /\ \/ /\ discovery_events' = (Head(requests).value /\ powered)
          /\ requests' = Tail(requests)
          /\ last' = Step("SetDiscovery", "-", IF Head(requests).value THEN "on" ELSE "off")
          /\ UNCHANGED <<wpc, device_handles, listener_tasks, confirmation_senders,
                         output, device_rx, agent_rx, acceptors>>
       \/ /\ Head(requests).value
          /\ Terminate("SetDiscovery", "-")
    /\ UNCHANGED <<platform_vars, app_vars, connects>>

\* handle_request, WorkerRequest::SetEnabled(v), adapter.set_powered(v) succeeding
HandleSetEnabled ==
    /\ PopRequest("SetEnabled")
    /\ SetPlatformPower(Head(requests).value)
    /\ requests' = Tail(requests)
    /\ last' = Step("SetEnabled", "-", "set_powered")
    /\ UNCHANGED <<devlist, pdev, rfkill_vars, app_vars, acceptors, wpc, device_handles,
                   listener_tasks, discovery_events, confirmation_senders, output,
                   device_rx, agent_rx, connects>>

\* the table after self.device_handles.drain().for_each(|(_, h)| h.abort())
AbortedAll == [a \in Addr |-> IF a \in device_handles THEN listener_tasks[a] - 1
                                                        ELSE listener_tasks[a]]

\* ---------------------------------------------------------- rfkill
\* the RfkillEvent that rfkill_set_enabled builds
RfkillEventSoftSwapped(idx, enable) ==
    [idx |-> idx, type |-> 2, op |-> 2, soft |-> IF enable THEN 1 ELSE 0, hard |-> 0]

RfkillEvent(idx, enable) ==
    [idx |-> idx, type |-> 2, op |-> 2, soft |-> IF enable THEN 0 ELSE 1, hard |-> 0]

\* a u32 as its two 16-bit halves (the value is hi * 65536 + lo)
U32(hi, lo) == [hi |-> hi, lo |-> lo]

\* the four bytes of a u32, least significant first
U32Bytes(n) == <<n.lo % 256, n.lo \div 256, n.hi % 256, n.hi \div 256>>

Reversed(s) == [i \in 1..Len(s) |-> s[Len(s) + 1 - i]]

\* std::mem::transmute of the #[repr(C, packed)] struct: the fields in order,
\* no padding, idx in the byte order of the target
Transmute(ev) ==
    (IF big_endian THEN Reversed(U32Bytes(ev.idx)) ELSE U32Bytes(ev.idx))
        \o <<ev.type, ev.op, ev.soft, ev.hard>>

\* file.write_all(&bytes)
Written(idx, enable) ==
    Some([idx |-> idx, enable |-> enable, bytes |-> Transmute(RfkillEvent(idx, enable))])

\* rfkill_set_enabled(idx, enable) on its own, /dev/rfkill opened and written
RfkillSetEnabled(idx, enable) ==
    /\ rfkill_dev' = Written(idx, enable)
    /\ last' = Step("rfkill_set_enabled", "-", "ok")
    /\ UNCHANGED <<devlist, powered, pdev, power_notes, big_endian, worker_vars,
                   acceptors, app_vars>>

\* handle_request, WorkerRequest::SetEnabled(v), set_powered failing: the rfkill
\* fallback. find_adapter_idx may find no rfkill entry for the adapter and
\* rfkill_set_enabled may fail to open or write /dev/rfkill, both before
\* anything is written; create_device_maps may fail after the write.
HandleSetEnabledFallback ==
    /\ PopRequest("SetEnabled")
    /\ \/ /\ TerminateWith("SetEnabled", "-", "no_rfkill_entry")
          /\ UNCHANGED <<powered, power_notes, rfkill_dev>>
       \/ /\ Terminate("SetEnabled", "-")
          /\ UNCHANGED <<powered, power_notes, rfkill_dev>>
       \/ /\ Head(requests).value
          /\ rfkill_dev' = Written(U32(0, SysfsIndex), TRUE)
          /\ SetPlatformPower(TRUE)
          /\ Terminate("SetEnabled", "-")
       \/ /\ Head(requests).value
          /\ rfkill_dev' = Written(U32(0, SysfsIndex), TRUE)
          /\ SetPlatformPower(TRUE)
          /\ Room(1)
          /\ \E S \in SUBSET devlist :
                /\ CanSpawn(S)
                /\ device_handles' = S
                /\ listener_tasks' = SpawnedFor(S)
                /\ output' = Append(output, EvDeviceMap(MapOf(S)))
          /\ requests' = Tail(requests)
          /\ last' = Step("SetEnabled", "-", "fallback_on")
          /\ UNCHANGED <<wpc, discovery_events, confirmation_senders, device_rx,
                         agent_rx, acceptors>>
       \/ /\ ~Head(requests).value
          /\ rfkill_dev' = Written(U32(0, SysfsIndex), FALSE)
          /\ SetPlatformPower(FALSE)
          /\ device_handles' = {}
          /\ listener_tasks' = AbortedAll
          /\ requests' = Tail(requests)
          /\ last' = Step("SetEnabled", "-", "fallback_off")
          /\ UNCHANGED <<wpc, discovery_events, confirmation_senders, output, device_rx,
                         agent_rx, acceptors>>
    /\ UNCHANGED <<devlist, pdev, big_endian, app_vars, connects>>

\* handle_device_updates that forgets the battery level on a Connected update
HandleDeviceUpdatesDropsBattery(dev, u) ==
    CASE u.kind = "Battery" -> [dev EXCEPT !.battery_percent = Some(u.value)]
      [] u.kind = "Paired" -> [dev EXCEPT !.is_paired = u.value]
      [] u.kind = "Connected" ->
            [dev EXCEPT !.status = IF u.value THEN "Connected" ELSE "Disconnected",
                        !.battery_percent = None]

\* ------------------------------------------------------------- the applet
\* BluetoothDevice::handle_device_updates
HandleDeviceUpdates(dev, u) ==
    CASE u.kind = "Battery" -> [dev EXCEPT !.battery_percent = Some(u.value)]
      [] u.kind = "Paired" -> [dev EXCEPT !.is_paired = u.value]
      [] u.kind = "Connected" ->
            [dev EXCEPT !.status = IF u.value THEN "Connected" ELSE "Disconnected"]

Insert(m, a, d) == [x \in DOMAIN m \cup {a} |-> IF x = a THEN d ELSE m[x]]

Remove(m, a) == [x \in DOMAIN m \ {a} |-> m[x]]

\* d.get_mut(&addr) then the record becomes d, or the out-of-sync warning
Update(m, a, d) == IF a \in DOMAIN m THEN [m EXCEPT ![a] = d] ELSE m

SetDisconnected(dev) == [dev EXCEPT !.status = "Disconnected"]

SetConnecting(dev) == [dev EXCEPT !.status = "Connecting"]

SetDisconnecting(dev) == [dev EXCEPT !.status = "Disconnecting"]

\* handle_worker_event: the device_map after the event
MapAfterEvent(ev) ==
    IF ev.type = "DeviceMap" THEN Some(ev.map)
    ELSE IF device_map = None THEN None
    ELSE LET m == Unwrap(device_map) IN
         CASE ev.type = "DeviceAdded" -> Some(Insert(m, ev.addr, ev.device))
           [] ev.type = "DeviceRemoved" -> Some(Remove(m, ev.addr))
           [] ev.type = "DeviceUpdate" ->
                Some(Update(m, ev.addr, HandleDeviceUpdates(m[ev.addr], ev.update)))
           [] ev.type = "ConnectFailed" -> Some(Update(m, ev.addr, SetDisconnected(m[ev.addr])))
           [] ev.type = "ConfirmCode" ->
                Some(Update(m, ev.addr, [m[ev.addr] EXCEPT !.display_code = Some(ev.code)]))
           [] OTHER -> device_map

\* handle_worker_event: Enabled(true) with the popup open asks for discovery
AsksDiscovery(ev) ==
    /\ ev.type = "Enabled"
    /\ ev.value
    /\ popup
    /\ worker_tx

\* update, Message::BluetoothEvent(ev)
AppHandleWorkerEvent ==
    /\ app_alive
    /\ output # <<>>
    /\ LET ev == Head(output) IN
        /\ output' = Tail(output)
        /\ device_map' = MapAfterEvent(ev)
        /\ worker_tx' = (worker_tx \/ ev.type = "Ready")
        /\ enabled' = CASE ev.type = "Ready" -> ev.enabled
                        [] ev.type = "Enabled" -> ev.value
                        [] OTHER -> enabled
        /\ app_alive' = (ev.type # "Error")
        /\ IF AsksDiscovery(ev)
           THEN /\ Len(requests) < MaxReq
                /\ requests' = SendRequest(ReqSetDiscovery(TRUE))
           ELSE requests' = requests
        /\ last' = Step("App" \o ev.type, IF "addr" \in DOMAIN ev THEN ev.addr ELSE "-", "ok")
    /\ UNCHANGED <<platform_vars, acceptors, popup, wpc, device_handles, listener_tasks,
                   discovery_events, confirmation_senders, device_rx, agent_rx, connects>>

\* a message of the user interface that sends one request on worker_tx
UiSend(r, h, a) ==
    /\ app_alive
    /\ worker_tx
    /\ Len(requests) < MaxReq
    /\ requests' = SendRequest(r)
    /\ last' = Step(h, a, "ok")

\* update, Message::TogglePopup
TogglePopup ==
    /\ app_alive
    /\ popup' = ~popup
    /\ IF worker_tx
       THEN /\ Len(requests) < MaxReq
            /\ requests' = SendRequest(ReqSetDiscovery(~popup))
       ELSE requests' = requests
    /\ last' = Step("TogglePopup", "-", "ok")
    /\ UNCHANGED <<platform_vars, acceptors, device_map, enabled, worker_tx, app_alive,
                   wpc, device_handles, listener_tasks, discovery_events,
                   confirmation_senders, output, device_rx, agent_rx, connects>>

\* a close request that drops the popup and tells the worker nothing
CloseRequestedSilent ==
    /\ app_alive
    /\ popup
    /\ popup' = FALSE
    /\ last' = Step("CloseRequested", "-", "ok")
    /\ UNCHANGED <<platform_vars, acceptors, device_map, enabled, worker_tx, app_alive,
                   wpc, device_handles, listener_tasks, discovery_events, requests,
                   confirmation_senders, output, device_rx, agent_rx, connects>>

\* update, Message::CloseRequested
CloseRequested ==
    /\ app_alive
    /\ popup
    /\ popup' = FALSE
    /\ IF worker_tx
       THEN /\ Len(requests) < MaxReq
            /\ requests' = SendRequest(ReqSetDiscovery(FALSE))
       ELSE requests' = requests
    /\ last' = Step("CloseRequested", "-", "ok")
    /\ UNCHANGED <<platform_vars, acceptors, device_map, enabled, worker_tx, app_alive,
                   wpc, device_handles, listener_tasks, discovery_events,
                   confirmation_senders, output, device_rx, agent_rx, connects>>

\* update, Message::ToggleBluetooth(_, v)
ToggleBluetooth(v) ==
    /\ UiSend(ReqSetEnabled(v), "ToggleBluetooth", "-")
    /\ UNCHANGED <<platform_vars, acceptors, app_vars, wpc, device_handles,
                   listener_tasks, discovery_events, confirmation_senders, output,
                   device_rx, agent_rx, connects>>

\* ----------------------------------------------------------- the platform
PlatformAddDevice(a) ==
    /\ a \notin devlist
    /\ devlist' = devlist \cup {a}
    /\ last' = Step("PlatformAdd", a, "ok")
    /\ UNCHANGED <<powered, pdev, power_notes, rfkill_vars, worker_vars, acceptors, app_vars>>

PlatformRemoveDevice(a) ==
    /\ a \in devlist
    /\ devlist' = devlist \ {a}
    /\ last' = Step("PlatformRemove", a, "ok")
    /\ UNCHANGED <<powered, pdev, power_notes, rfkill_vars, worker_vars, acceptors, app_vars>>

\* the radio is switched by someone else (another rfkill client, a hardware key)
PlatformPower ==
    /\ SetPlatformPower(~powered)
    /\ last' = Step("PlatformPower", "-", "ok")
    /\ UNCHANGED <<devlist, pdev, rfkill_vars, worker_vars, acceptors, app_vars>>

\* ----------------------------------------------------------- the pairing
\* agent.rs request_confirmation, up to rx.await: a oneshot channel is made and
\* its sender is forwarded on agent_rx; when the worker's receiver is gone the
\* send fails and the sender is dropped at once. The passkey shown to the user
\* is identified with the number of the call.
AgentRequestConfirmation(a) ==
    /\ app_alive
    /\ wpc \in {"running", "terminated"}
    /\ a \in devlist
    /\ Len(acceptors) < MaxChallenges
    /\ acceptors' = Append(acceptors,
            [addr |-> a,
             chan |-> IF wpc = "running" THEN "pending" ELSE "dropped",
             cb |-> "waiting",
             orphaned |-> FALSE])
    /\ agent_rx' = IF wpc = "running" THEN Append(agent_rx, Len(acceptors) + 1)
                                      ELSE agent_rx
    /\ last' = Step("RequestConfirmation", a, "ok")
    /\ UNCHANGED <<platform_vars, app_vars, wpc, device_handles, listener_tasks,
                   discovery_events, confirmation_senders, requests, output,
                   device_rx, connects>>

\* the callback's report for what rx.await returned
ReportAcceptsAny(chan) == IF chan \in {"true", "false"} THEN "accepted" ELSE "rejected"

Report(chan) == IF chan = "true" THEN "accepted" ELSE "rejected"

\* agent.rs request_confirmation, from rx.await on
RequestConfirmationResumes(i) ==
    /\ app_alive
    /\ acceptors[i].cb = "waiting"
    /\ acceptors[i].chan # "pending"
    /\ acceptors' = [acceptors EXCEPT ![i].cb = Report(acceptors[i].chan)]
    /\ last' = Step("RequestConfirmationDone", acceptors[i].addr, "ok")
    /\ UNCHANGED <<platform_vars, app_vars, worker_vars>>

\* a loop that takes the newest agent event first
HandleAgentEventNewestFirst ==
    /\ Running
    /\ agent_rx # <<>>
    /\ Room(1)
    /\ LET i == agent_rx[Len(agent_rx)]
           a == acceptors[i].addr
       IN /\ confirmation_senders' = [confirmation_senders EXCEPT ![a] = i]
          /\ acceptors' = DropSenders({confirmation_senders[a]})
          /\ output' = Append(output, EvConfirmCode(i, a))
          /\ last' = Step("AgentEvent", a, "ok")
    /\ agent_rx' = SubSeq(agent_rx, 1, Len(agent_rx) - 1)
    /\ UNCHANGED <<platform_vars, app_vars, wpc, device_handles, listener_tasks,
                   discovery_events, requests, device_rx, connects>>

\* handle_agent_event: the acceptor is stored under the address (an acceptor
\* already stored there is replaced and dropped) and ConfirmCode is emitted
HandleAgentEvent ==
    /\ Running
    /\ agent_rx # <<>>
    /\ Room(1)
    /\ LET i == Head(agent_rx)
           a == acceptors[i].addr
       IN /\ confirmation_senders' = [confirmation_senders EXCEPT ![a] = i]
          /\ acceptors' = DropSenders({confirmation_senders[a]})
          /\ output' = Append(output, EvConfirmCode(i, a))
          /\ last' = Step("AgentEvent", a, "ok")
    /\ agent_rx' = Tail(agent_rx)
    /\ UNCHANGED <<platform_vars, app_vars, wpc, device_handles, listener_tasks,
                   discovery_events, requests, device_rx, connects>>

\* sender.send(confirm) on the oneshot channel i
Answered(i, confirm) ==
    [acceptors EXCEPT ![i].chan = IF @ = "pending"
                                  THEN (IF confirm THEN "true" ELSE "false")
                                  ELSE @]

\* ConfirmCodeEffect that looks the acceptor up without removing it
ConfirmCodeEffectKeepsSender(a, confirm) ==
    IF confirmation_senders[a] # NoSender
    THEN /\ confirmation_senders' = confirmation_senders
         /\ acceptors' = Answered(confirmation_senders[a], confirm)
         /\ last' = Step("ConfirmCode", a, "answered")
    ELSE /\ last' = Step("ConfirmCode", a, "ignored")
         /\ UNCHANGED <<confirmation_senders, acceptors>>

\* handle_request, WorkerRequest::ConfirmCode(a, confirm)
ConfirmCodeEffect(a, confirm) ==
    IF confirmation_senders[a] # NoSender
    THEN /\ confirmation_senders' = [confirmation_senders EXCEPT ![a] = NoSender]
         /\ acceptors' = Answered(confirmation_senders[a], confirm)
         /\ last' = Step("ConfirmCode", a, "answered")
    ELSE /\ last' = Step("ConfirmCode", a, "ignored")
         /\ UNCHANGED <<confirmation_senders, acceptors>>

HandleConfirmCode ==
    /\ PopRequest("ConfirmCode")
    /\ ConfirmCodeEffect(Head(requests).addr, Head(requests).value)
    /\ requests' = Tail(requests)
    /\ UNCHANGED <<platform_vars, app_vars, wpc, device_handles, listener_tasks,
                   discovery_events, output, device_rx, agent_rx, connects>>

\* view_window: the cancel and confirm buttons are drawn for an unpaired device
\* that has a display code, while bluetooth is shown enabled
ShowsConfirm(a) ==
    /\ enabled
    /\ CacheHas(a)
    /\ ~Unwrap(device_map)[a].is_paired
    /\ Unwrap(device_map)[a].display_code # None

\* update, Message::ConfirmCode(a, confirm)
ConfirmCode(a, confirm) ==
    /\ ShowsConfirm(a)
    /\ UiSend(ReqConfirmCode(a, confirm), "UiConfirmCode", a)
    /\ UNCHANGED <<platform_vars, acceptors, app_vars, wpc, device_handles,
                   listener_tasks, discovery_events, confirmation_senders, output,
                   device_rx, agent_rx, connects>>

\* ------------------------------------------------------- connect flows
\* the platform changes a property of device a: every running device_listener
\* of a forwards the update on device_tx
Forwarded(a, u) ==
    IF wpc = "running"
    THEN [i \in 1..listener_tasks[a] |-> [addr |-> a, update |-> u]]
    ELSE <<>>

CanForward(a) == Len(device_rx) + listener_tasks[a] <= MaxUpdates

UConnected(v) == [kind |-> "Connected", value |-> v]

UPaired(v) == [kind |-> "Paired", value |-> v]

UBattery(v) == [kind |-> "Battery", value |-> v]

\* the connected flag of a becomes v; a change is notified to the listeners
SetPlatformConnected(a, v) ==
    IF pdev[a].connected = v
    THEN UNCHANGED <<pdev, device_rx>>
    ELSE /\ CanForward(a)
         /\ pdev' = [pdev EXCEPT ![a].connected = v]
         /\ device_rx' = device_rx \o Forwarded(a, UConnected(v))

\* listen, the device_rx arm
HandleDeviceUpdate ==
    /\ Running
    /\ device_rx # <<>>
    /\ Room(1)
    /\ output' = Append(output, EvDeviceUpdate(Head(device_rx).addr, Head(device_rx).update))
    /\ device_rx' = Tail(device_rx)
    /\ last' = Step("DeviceUpdate", Head(device_rx).addr, "ok")
    /\ UNCHANGED <<platform_vars, app_vars, acceptors, wpc, device_handles,
                   listener_tasks, discovery_events, confirmation_senders, requests,
                   agent_rx, connects>>

\* a property of device a changes: every running device_listener of a
\* forwards the update
BatteryLevel == 50

PlatformPropertyChanged(a, u) ==
    /\ a \in devlist
    /\ CanForward(a)
    /\ device_rx' = device_rx \o Forwarded(a, u)
    /\ last' = Step("PlatformProperty", a, "ok")
    /\ UNCHANGED <<devlist, powered, power_notes, rfkill_vars, app_vars, acceptors, wpc,
                   device_handles, listener_tasks, discovery_events,
                   confirmation_senders, requests, output, agent_rx, connects>>

\* the device is paired or unpaired
PlatformPaired(a) ==
    /\ pdev' = [pdev EXCEPT ![a].paired = ~pdev[a].paired]
    /\ PlatformPropertyChanged(a, UPaired(~pdev[a].paired))

\* the device reports its battery level
PlatformBattery(a) ==
    /\ pdev' = [pdev EXCEPT ![a].battery = Some(BatteryLevel)]
    /\ PlatformPropertyChanged(a, UBattery(BatteryLevel))

\* connect_with_retry at its first device.connect()
NewConnect(a) ==
    [kind |-> "connect", addr |-> a, attempt |-> 1, backoff |-> InitialBackoffMs,
     state |-> "trying", waited |-> <<>>]

\* handle_request, WorkerRequest::ConnectDevice(a): the flow is spawned
HandleConnectDevice ==
    /\ PopRequest("ConnectDevice")
    /\ \/ /\ Len(connects) < MaxConnects
          /\ connects' = Append(connects, NewConnect(Head(requests).addr))
          /\ requests' = Tail(requests)
          /\ last' = Step("ConnectDevice", Head(requests).addr, "spawned")
          /\ UNCHANGED <<wpc, device_handles, listener_tasks, discovery_events,
                         confirmation_senders, output, device_rx, agent_rx, acceptors>>
       \/ Terminate("ConnectDevice", Head(requests).addr)
    /\ UNCHANGED <<platform_vars, app_vars>>

\* connect_with_retry: the flow gives up after this failed attempt
GivesUpLate(attempt) == attempt > MAX_TRIES

GivesUp(attempt) == attempt >= MAX_TRIES

\* connect_with_retry: the backoff after a sleep
NextBackoffTripled(backoff) == Min(backoff * 3, BackoffCapMs)

NextBackoff(backoff) == Min(backoff * 2, BackoffCapMs)

\* connect_with_retry, device.connect() returning Err: bail after the last
\* attempt (the spawned task then sends ConnectFailed), else sleep
ConnectFails(t) ==
    /\ app_alive
    /\ connects[t].kind = "connect"
    /\ connects[t].state = "trying"
    /\ IF GivesUp(connects[t].attempt)
       THEN /\ Room(1)
            /\ output' = Append(output, EvConnectFailed(connects[t].addr))
            /\ connects' = [connects EXCEPT ![t].state = "failed"]
            /\ last' = Step("ConnectFails", connects[t].addr, "exhausted")
       ELSE /\ output' = output
            /\ connects' = [connects EXCEPT ![t].state = "sleeping"]
            /\ last' = Step("ConnectFails", connects[t].addr, "retry")
    /\ UNCHANGED <<platform_vars, app_vars, acceptors, wpc, device_handles,
                   listener_tasks, discovery_events, confirmation_senders, requests,
                   device_rx, agent_rx>>

\* connect_with_retry, tokio::time::sleep(backoff) elapsing: the backoff is
\* doubled and the next attempt starts (waited lists the delays slept so far)
SleepElapses(t) ==
    /\ app_alive
    /\ connects[t].kind = "connect"
    /\ connects[t].state = "sleeping"
    /\ connects' = [connects EXCEPT ![t].waited = Append(@, connects[t].backoff),
                                    ![t].backoff = NextBackoff(@),
                                    ![t].attempt = @ + 1,
                                    ![t].state = "trying"]
    /\ last' = Step("SleepElapses", connects[t].addr, "ok")
    /\ UNCHANGED <<platform_vars, app_vars, acceptors, wpc, device_handles,
                   listener_tasks, discovery_events, confirmation_senders, requests,
                   output, device_rx, agent_rx>>

\* connect_with_retry, device.connect() returning Ok
ConnectSucceeds(t) ==
    /\ app_alive
    /\ connects[t].kind = "connect"
    /\ connects[t].state = "trying"
    /\ connects[t].addr \in devlist
    /\ SetPlatformConnected(connects[t].addr, TRUE)
    /\ connects' = [connects EXCEPT ![t].state = "connected"]
    /\ last' = Step("ConnectSucceeds", connects[t].addr, "ok")
    /\ UNCHANGED <<devlist, powered, power_notes, rfkill_vars, app_vars, acceptors, wpc,
                   device_handles, listener_tasks, discovery_events,
                   confirmation_senders, requests, output, agent_rx>>

\* view_window: the button of a paired device sends ConnectDevice while the
\* device is shown Disconnected; the button of an unpaired device without a
\* display code sends it whatever the status, while bluetooth is shown enabled
ShowsConnect(a) ==
    /\ CacheHas(a)
    /\ IF Unwrap(device_map)[a].is_paired
       THEN Unwrap(device_map)[a].status = "Disconnected"
       ELSE enabled /\ Unwrap(device_map)[a].display_code = None

\* update, Message::Request(r) for r = ConnectDevice(a) or DisconnectDevice(a):
\* the cached status is set at once, then the request is sent
MapAfterRequest(r) ==
    IF device_map = None THEN None
    ELSE LET m == Unwrap(device_map) IN
         CASE r.type = "ConnectDevice" -> Some(Update(m, r.addr, SetConnecting(m[r.addr])))
           [] r.type = "DisconnectDevice" -> Some(Update(m, r.addr, SetDisconnecting(m[r.addr])))
           [] OTHER -> device_map

Request(r) ==
    /\ UiSend(r, "Request" \o r.type, r.addr)
    /\ device_map' = MapAfterRequest(r)
    /\ UNCHANGED <<platform_vars, acceptors, enabled, worker_tx, popup, app_alive, wpc,
                   device_handles, listener_tasks, discovery_events,
                   confirmation_senders, output, device_rx, agent_rx, connects>>

RequestConnect(a) == ShowsConnect(a) /\ Request(ReqConnectDevice(a))

\* update, Message::Request(r) with a connect or disconnect request for any
\* address, whatever the cache holds when the message is handled
RequestForAnyAddress(a) ==
    \E r \in {ReqConnectDevice(a), ReqDisconnectDevice(a)} : Request(r)

\* handle_request, WorkerRequest::DisconnectDevice(a): the task is spawned
NewDisconnect(a) ==
    [kind |-> "disconnect", addr |-> a, attempt |-> 0, backoff |-> 0,
     state |-> "disconnecting", waited |-> <<>>]

HandleDisconnectDevice ==
    /\ PopRequest("DisconnectDevice")
    /\ \/ /\ Len(connects) < MaxConnects
          /\ connects' = Append(connects, NewDisconnect(Head(requests).addr))
          /\ requests' = Tail(requests)
          /\ last' = Step("DisconnectDevice", Head(requests).addr, "spawned")
          /\ UNCHANGED <<wpc, device_handles, listener_tasks, discovery_events,
                         confirmation_senders, output, device_rx, agent_rx, acceptors>>
       \/ Terminate("DisconnectDevice", Head(requests).addr)
    /\ UNCHANGED <<platform_vars, app_vars>>

\* the spawned disconnect task: device.disconnect() returns, Ok for a device
\* the platform has (it is no longer connected), or Err (a warning is logged)
DisconnectReturns(t) ==
    /\ app_alive
    /\ connects[t].kind = "disconnect"
    /\ connects[t].state = "disconnecting"
    /\ \/ /\ connects[t].addr \in devlist
          /\ SetPlatformConnected(connects[t].addr, FALSE)
          /\ last' = Step("DisconnectReturns", connects[t].addr, "ok")
       \/ /\ UNCHANGED <<pdev, device_rx>>
          /\ last' = Step("DisconnectReturns", connects[t].addr, "failed")
    /\ connects' = [connects EXCEPT ![t].state = "done"]
    /\ UNCHANGED <<devlist, powered, power_notes, rfkill_vars, app_vars, acceptors, wpc,
                   device_handles, listener_tasks, discovery_events,
                   confirmation_senders, requests, output, agent_rx>>

\* view_window: the button of a paired device shown Connecting sends
\* CancelConnect; an unpaired device has no such button
ShowsCancel(a) ==
    /\ CacheHas(a)
    /\ Unwrap(device_map)[a].is_paired
    /\ Unwrap(device_map)[a].status = "Connecting"

RequestCancel(a) == ShowsCancel(a) /\ Request(ReqCancelConnect(a))

\* view_window: the button of a paired device shown Connected sends
\* DisconnectDevice
ShowsDisconnect(a) ==
    /\ CacheHas(a)
    /\ Unwrap(device_map)[a].is_paired
    /\ Unwrap(device_map)[a].status = "Connected"

RequestDisconnect(a) == ShowsDisconnect(a) /\ Request(ReqDisconnectDevice(a))

\* handle_request, WorkerRequest::CancelConnect(a): the task is spawned
NewCancel(a) ==
    [kind |-> "cancel", addr |-> a, attempt |-> 0, backoff |-> 0,
     state |-> "disconnecting", waited |-> <<>>]

\* a cancel that reports ConnectFailed from the handler, before the
\* disconnect call has returned
HandleCancelConnectEager ==
    /\ PopRequest("CancelConnect")
    /\ Len(connects) < MaxConnects
    /\ Room(1)
    /\ connects' = Append(connects, NewCancel(Head(requests).addr))
    /\ output' = Append(output, EvConnectFailed(Head(requests).addr))
    /\ requests' = Tail(requests)
    /\ last' = Step("CancelConnect", Head(requests).addr, "spawned")
    /\ UNCHANGED <<wpc, device_handles, listener_tasks, discovery_events,
                   confirmation_senders, device_rx, agent_rx, acceptors>>
    /\ UNCHANGED <<platform_vars, app_vars>>

HandleCancelConnect ==
    /\ PopRequest("CancelConnect")
    /\ \/ /\ Len(connects) < MaxConnects
          /\ connects' = Append(connects, NewCancel(Head(requests).addr))
          /\ requests' = Tail(requests)
          /\ last' = Step("CancelConnect", Head(requests).addr, "spawned")
          /\ UNCHANGED <<wpc, device_handles, listener_tasks, discovery_events,
                         confirmation_senders, output, device_rx, agent_rx, acceptors>>
       \/ Terminate("CancelConnect", Head(requests).addr)
    /\ UNCHANGED <<platform_vars, app_vars>>

\* the spawned cancel task: device.disconnect() returns, Ok for a device the
\* platform has (it is no longer connected), or Err (a warning is logged)
CancelDisconnectReturns(t) ==
    /\ app_alive
    /\ connects[t].kind = "cancel"
    /\ connects[t].state = "disconnecting"
    /\ \/ /\ connects[t].addr \in devlist
          /\ SetPlatformConnected(connects[t].addr, FALSE)
          /\ last' = Step("CancelDisconnectReturns", connects[t].addr, "ok")
       \/ /\ UNCHANGED <<pdev, device_rx>>
          /\ last' = Step("CancelDisconnectReturns", connects[t].addr, "failed")
    /\ connects' = [connects EXCEPT ![t].state = "returned"]
    /\ UNCHANGED <<devlist, powered, power_notes, rfkill_vars, app_vars, acceptors, wpc,
                   device_handles, listener_tasks, discovery_events,
                   confirmation_senders, requests, output, agent_rx>>

\* the spawned cancel task after the disconnect call: it sends ConnectFailed
CancelSendsConnectFailed(t) ==
    /\ app_alive
    /\ connects[t].kind = "cancel"
    /\ connects[t].state = "returned"
    /\ Room(1)
    /\ output' = Append(output, EvConnectFailed(connects[t].addr))
    /\ connects' = [connects EXCEPT ![t].state = "done"]
    /\ last' = Step("CancelSendsConnectFailed", connects[t].addr, "ok")
    /\ UNCHANGED <<platform_vars, app_vars, acceptors, wpc, device_handles,
                   listener_tasks, discovery_events, confirmation_senders, requests,
                   device_rx, agent_rx>>

\* ---------------------------------------------------------- specifications
\* power and device lifecycle: startup, the adapter stream, enable/disable with
\* the rfkill fallback, and the applet's cache
Next ==
    \/ TryCreate
    \/ TryCreateFails
    \/ \E a \in Addr : AdapterDeviceRemoved(a)
    \/ \E a \in Addr : AdapterDeviceAdded(a)
    \/ AdapterPowered
    \/ HandleSetEnabled
    \/ HandleSetEnabledFallback
    \/ AppHandleWorkerEvent
    \/ \E v \in BOOLEAN : ToggleBluetooth(v)
    \/ \E a \in Addr : PlatformAddDevice(a)
    \/ \E a \in Addr : PlatformRemoveDevice(a)
    \/ PlatformPower

Spec == Init /\ [][Next]_vars

\* discovery: both event streams, the popup and the discovery requests, with
\* enable/disable through adapter.set_powered
NextDiscovery ==
    \/ TryCreate
    \/ TryCreateFails
    \/ \E a \in Addr : AdapterDeviceRemoved(a)
    \/ \E a \in Addr : DiscoveryDeviceRemoved(a)
    \/ \E a \in Addr : AdapterDeviceAdded(a)
    \/ \E a \in Addr : DiscoveryDeviceAdded(a)
    \/ AdapterPowered
    \/ HandleSetDiscovery
    \/ HandleSetEnabled
    \/ AppHandleWorkerEvent
    \/ TogglePopup
    \/ CloseRequested
    \/ \E v \in BOOLEAN : ToggleBluetooth(v)
    \/ \E a \in Addr : PlatformAddDevice(a)
    \/ \E a \in Addr : PlatformRemoveDevice(a)
    \/ PlatformPower

SpecDiscovery == Init /\ [][NextDiscovery]_vars


\* pairing: startup, device removal, the pairing agent and the answers
NextPairing ==
    \/ TryCreate
    \/ TryCreateFails
    \/ \E a \in Addr : AdapterDeviceRemoved(a)
    \/ \E a \in Addr : AgentRequestConfirmation(a)
    \/ \E i \in DOMAIN acceptors : RequestConfirmationResumes(i)
    \/ HandleAgentEvent
    \/ HandleConfirmCode
    \/ AppHandleWorkerEvent
    \/ \E a \in Addr, v \in BOOLEAN : ConfirmCode(a, v)
    \/ \E a \in Addr : PlatformAddDevice(a)
    \/ \E a \in Addr : PlatformRemoveDevice(a)

SpecPairing == Init /\ [][NextPairing]_vars

\* connecting: startup, connect requests and their retry flows, the listeners'
\* updates and the applet's cache
NextConnect ==
    \/ TryCreate
    \/ TryCreateFails
    \/ \E a \in Addr : RequestConnect(a)
    \/ HandleConnectDevice
    \/ \E t \in DOMAIN connects : ConnectFails(t)
    \/ \E t \in DOMAIN connects : SleepElapses(t)
    \/ \E t \in DOMAIN connects : ConnectSucceeds(t)
    \/ HandleDeviceUpdate
    \/ AppHandleWorkerEvent

SpecConnect == Init /\ [][NextConnect]_vars

\* requests and the cache: startup, devices coming and going, connect and
\* disconnect messages for any address, the tasks they spawn
NextDesync ==
    \/ TryCreate
    \/ \E a \in Addr : AdapterDeviceRemoved(a)
    \/ \E a \in Addr : RequestForAnyAddress(a)
    \/ HandleConnectDevice
    \/ HandleDisconnectDevice
    \/ \E t \in DOMAIN connects : ConnectSucceeds(t)
    \/ \E t \in DOMAIN connects : DisconnectReturns(t)
    \/ HandleDeviceUpdate
    \/ AppHandleWorkerEvent
    \/ \E a \in Addr : PlatformRemoveDevice(a)

SpecDesync == Init /\ [][NextDesync]_vars

\* the loop and its five sources: startup, requests, the adapter stream, the
\* discovery stream, the listeners' updates and the agent's challenges
NextLoop ==
    \/ TryCreate
    \/ TryCreateFails
    \/ \E a \in Addr : AdapterDeviceRemoved(a)
    \/ \E a \in Addr : DiscoveryDeviceRemoved(a)
    \/ HandleSetDiscovery
    \/ HandleDeviceUpdate
    \/ HandleAgentEvent
    \/ AppHandleWorkerEvent
    \/ TogglePopup
    \/ \E a \in Addr : AgentRequestConfirmation(a)
    \/ \E a \in Addr : PlatformBattery(a)

SpecLoop == Init /\ [][NextLoop]_vars

\* the device the user operates in the cancelling scenarios
Subject == {"a1"}

\* cancelling: connect requests and their retry flows, pairing while
\* connecting, cancel requests and their tasks, the listeners' updates
NextCancel ==
    \/ TryCreate
    \/ \E a \in Subject : PlatformPaired(a)
    \/ \E a \in Subject : RequestConnect(a)
    \/ \E a \in Subject : RequestCancel(a)
    \/ HandleConnectDevice
    \/ HandleCancelConnect
    \/ \E t \in DOMAIN connects : ConnectFails(t)
    \/ \E t \in DOMAIN connects : SleepElapses(t)
    \/ \E t \in DOMAIN connects : ConnectSucceeds(t)
    \/ \E t \in DOMAIN connects : CancelDisconnectReturns(t)
    \/ \E t \in DOMAIN connects : CancelSendsConnectFailed(t)
    \/ HandleDeviceUpdate
    \/ AppHandleWorkerEvent

SpecCancel == Init /\ [][NextCancel]_vars

\* disconnecting: a device is paired, connected and then disconnected by the
\* user. The worker's loop, the spawned tasks and the applet's event handling
\* are scheduled fairly by the runtime; the user and the platform are not.
NextSettle ==
    \/ TryCreate
    \/ \E a \in Subject : PlatformPaired(a)
    \/ \E a \in Subject : RequestConnect(a)
    \/ \E a \in Subject : RequestDisconnect(a)
    \/ HandleConnectDevice
    \/ HandleDisconnectDevice
    \/ \E t \in DOMAIN connects : ConnectSucceeds(t)
    \/ \E t \in DOMAIN connects : DisconnectReturns(t)
    \/ HandleDeviceUpdate
    \/ AppHandleWorkerEvent

FairSettle ==
    /\ WF_vars(TryCreate)
    /\ WF_vars(HandleConnectDevice)
    /\ WF_vars(HandleDisconnectDevice)
    /\ WF_vars(\E t \in DOMAIN connects : DisconnectReturns(t))
    /\ WF_vars(HandleDeviceUpdate)
    /\ WF_vars(AppHandleWorkerEvent)

SpecSettle == Init /\ [][NextSettle]_vars /\ FairSettle

\* device updates: the three properties a listener forwards, the applet
\* applying them, and a device leaving while its updates are in flight
NextUpdates ==
    \/ TryCreate
    \/ \E a \in Subject : PlatformPaired(a)
    \/ \E a \in Subject : PlatformBattery(a)
    \/ \E a \in Subject : RequestConnect(a)
    \/ HandleConnectDevice
    \/ \E t \in DOMAIN connects : ConnectSucceeds(t)
    \/ \E a \in Addr : AdapterDeviceRemoved(a)
    \/ \E a \in Addr : PlatformRemoveDevice(a)
    \/ HandleDeviceUpdate
    \/ AppHandleWorkerEvent

SpecUpdates == Init /\ [][NextUpdates]_vars

\* progress of the loop: one producer and the handler for each queued source
\* (requests, the adapter stream's powered notifications, device_rx,
\* agent_rx) and the discovery stream. select! picks among the ready arms at
\* random, so an arm that is ready again and again is taken; the applet reads
\* the stream; the producers owe nothing.
NextProgress ==
    \/ TryCreate
    \/ TogglePopup
    \/ HandleSetDiscovery
    \/ PlatformPower
    \/ AdapterPowered
    \/ \E a \in Subject : DiscoveryDeviceRemoved(a)
    \/ \E a \in Subject : PlatformBattery(a)
    \/ HandleDeviceUpdate
    \/ \E a \in Subject : AgentRequestConfirmation(a)
    \/ HandleAgentEvent
    \/ AppHandleWorkerEvent

FairProgress ==
    /\ WF_vars(HandleSetDiscovery)
    /\ SF_vars(AdapterPowered)
    /\ SF_vars(HandleDeviceUpdate)
    /\ SF_vars(HandleAgentEvent)
    /\ SF_vars(AppHandleWorkerEvent)

\* the adapter knows the one device the scenario is about
InitProgress == Init /\ devlist = Subject

SpecProgress == InitProgress /\ [][NextProgress]_vars /\ FairProgress

\* the raw power-control record: rfkill_set_enabled applied to sample indices
\* of the u32 range, on either target
U32Samples == {U32(hi, lo) : hi \in {0, 1, 258, 32768, 65535},
                             lo \in {0, 3, 255, 256, 772, 65535}}

NextRfkill == \E idx \in U32Samples, enable \in BOOLEAN : RfkillSetEnabled(idx, enable)

SpecRfkill == InitAnyTarget /\ [][NextRfkill]_vars

\* ------------------------------------------------------------ the claims
\* everything but the record of the step taken
program_vars == <<platform_vars, worker_vars, acceptors, app_vars>>

\* the step just taken was the handler h for address a and it did not fail
Handled(h, a) == last'.h = h /\ last'.a = a /\ last'.r # "error"

\* C1: a device-removed notification for an address that is still in the
\* platform's device list, from either stream, changes nothing: the listener
\* handle and its task stay, the cached record stays, no event is emitted.
C1_RemovedWhilePresentChangesNothing ==
    [][\A a \in Addr :
        Handled("DeviceRemoved", a) /\ a \in devlist => UNCHANGED program_vars]_vars

C1_Witness ==
    /\ last = Step("DeviceRemoved", last.a, "present")
    /\ discovery_events
    /\ last.a \in devlist
    /\ last.a \in device_handles
    /\ listener_tasks[last.a] = 1
    /\ CacheHas(last.a)

\* C2 (as claimed): a device-removed notification for an address that has a
\* record in the (up to date) cache and is absent from the platform's device
\* list emits DeviceRemoved for it and leaves no listener handle or task for it.
C2_RemovalOfCachedDeviceIsReported ==
    [][\A a \in Addr :
        Handled("DeviceRemoved", a) /\ a \notin devlist /\ CacheHas(a) /\ output = <<>>
        => /\ output' = <<EvDeviceRemoved(a)>>
           /\ a \notin device_handles'
           /\ listener_tasks'[a] = 0]_vars

\* C3 (as claimed): the second of two device-added notifications for the same
\* address, handled one after the other, is a no-op.
C3_SecondAddedIsNoOp ==
    [][\A a \in Addr :
        last.h = "DeviceAdded" /\ last.a = a /\ Handled("DeviceAdded", a)
        => UNCHANGED program_vars]_vars

\* C3 (amended): a device-added notification for an address that has a
\* listener handle is a no-op, so the second of two notifications is a no-op
\* whenever the first one spawned the listener.
C3_AddedWithListenerIsNoOp ==
    [][\A a \in Addr :
        /\ Handled("DeviceAdded", a) /\ a \in device_handles
            => UNCHANGED program_vars
        /\ last = Step("DeviceAdded", a, "added") /\ Handled("DeviceAdded", a)
            => UNCHANGED program_vars]_vars

C3_Witness ==
    /\ last = Step("DeviceAdded", last.a, "ignored")
    /\ discovery_events
    /\ last.a \in device_handles
    /\ listener_tasks[last.a] = 1
    /\ CacheHas(last.a)

\* the delays connect_with_retry sleeps between its MAX_TRIES attempts
SleptDelays == <<500, 1000, 2000, 4000>>

\* what a step does to the connect flows: a flow that has failed does nothing
\* more, a flow fails only at the failure of its fifth attempt and then emits
\* ConnectFailed for its address, and no other step of a flow emits anything
FlowsFailAfterFive ==
    \A t \in DOMAIN connects :
        connects[t].kind = "connect" =>
            /\ connects[t].state = "failed" => connects'[t] = connects[t]
            /\ connects'[t] # connects[t] =>
                IF connects'[t].state = "failed"
                THEN /\ connects[t].attempt = 5
                     /\ connects[t].state = "trying"
                     /\ output' = Append(output, EvConnectFailed(connects[t].addr))
                ELSE /\ output' = output
                     /\ connects'[t].attempt <= 5

C5_WaitedFiveDelays ==
    \A t \in DOMAIN connects :
        connects[t].kind = "connect" /\ connects[t].state = "failed"
        => connects[t].waited = <<500, 1000, 2000, 4000, 8000>>

\* C5 (amended): the delays a flow has waited are the first attempt - 1 of
\* 500, 1000, 2000, 4000 milliseconds, one between two consecutive attempts,
\* each double the one before and none above 10000; a flow whose attempts all
\* failed has waited these four, and the 8000 it computed last is never waited.
C5_WaitedFourDoublingDelays ==
    \A t \in DOMAIN connects :
        connects[t].kind = "connect" =>
            /\ connects[t].waited = SubSeq(SleptDelays, 1, connects[t].attempt - 1)
            /\ \A i \in DOMAIN connects[t].waited :
                /\ connects[t].waited[i] <= 10000
                /\ i > 1 => connects[t].waited[i] = 2 * connects[t].waited[i - 1]
            /\ connects[t].state = "failed"
                => connects[t].waited = SleptDelays /\ connects[t].backoff = 8000

C5_Witness ==
    \E t \in DOMAIN connects :
        /\ connects[t].state = "failed"
        /\ connects[t].waited = <<500, 1000, 2000, 4000>>


\* the acceptor stored for a, when there is one
Stored(a) == confirmation_senders[a]

\* C6: once a challenge for A has been received, ConfirmCode(A, accept) removes
\* A's stored acceptor and fulfils it with accept; a ConfirmCode for A with no
\* acceptor stored changes no coordinator state and emits no event.
C6_ConfirmCodeAnswersOnce ==
    [][\A a \in Addr :
        Handled("ConfirmCode", a) =>
            IF Stored(a) # NoSender
            THEN /\ Stored(a)' = NoSender
                 /\ acceptors[Stored(a)].chan = "pending"
                 /\ acceptors'[Stored(a)].chan =
                        (IF Head(requests).value THEN "true" ELSE "false")
                 /\ \A i \in DOMAIN acceptors : i # Stored(a) => acceptors'[i] = acceptors[i]
                 /\ \A b \in Addr \ {a} : Stored(b)' = Stored(b)
                 /\ output' = output
            ELSE UNCHANGED <<platform_vars, app_vars, acceptors, wpc, device_handles,
                             listener_tasks, discovery_events, confirmation_senders,
                             output, device_rx, agent_rx, connects>>]_vars

\* an accept answer was delivered, and a second answer for the same address has
\* just been ignored
C6_Witness ==
    /\ last = Step("ConfirmCode", last.a, "ignored")
    /\ \E i \in DOMAIN acceptors : acceptors[i].addr = last.a /\ acceptors[i].chan = "true"

\* C7: the agent callback reports acceptance only for an acceptor answered
\* true, reports a rejection only for one answered false or dropped, and
\* reports nothing while its acceptor is neither answered nor dropped.
C7_CallbackReportsTheAnswer ==
    \A i \in DOMAIN acceptors :
        /\ acceptors[i].cb = "accepted" => acceptors[i].chan = "true"
        /\ acceptors[i].cb = "rejected" => acceptors[i].chan \in {"false", "dropped"}
        /\ acceptors[i].chan = "pending" => acceptors[i].cb = "waiting"

C7_Witness ==
    /\ \E i \in DOMAIN acceptors : acceptors[i].cb = "accepted"
    /\ \E i \in DOMAIN acceptors : acceptors[i].cb = "rejected" /\ acceptors[i].chan = "dropped"

\* C8 (as claimed): a device record shows a display code only while its
\* challenge is outstanding: never once that challenge has been answered.
C8_DisplayCodeOnlyWhileOutstanding ==
    \A a \in Addr :
        CacheHas(a) /\ Unwrap(device_map)[a].display_code # None
        => acceptors[Unwrap(Unwrap(device_map)[a].display_code)].chan \notin {"true", "false"}

\* C9 (as claimed): after a device-removed notification that removes A, the
\* pending-confirmation table holds no entry for A.
C9_RemovalConsumesTheEntry ==
    [][\A a \in Addr :
        last' = Step("DeviceRemoved", a, "removed") => Stored(a)' = NoSender]_vars

\* an acceptor whose device was removed while it was stored and unanswered,
\* with nothing about it still on its way between the applet and the worker
Stranded(i) ==
    /\ acceptors[i].orphaned
    /\ acceptors[i].chan = "pending"
    /\ ~CacheHas(acceptors[i].addr)
    /\ requests = <<>>
    /\ output = <<>>

\* C10 (as claimed): once A's record was removed with the challenge
\* unanswered, the acceptor is never answered or closed and the callback
\* never completes, as long as the coordinator loop runs.
C10_StrandedForever ==
    [][\A i \in DOMAIN acceptors :
        Stranded(i) /\ wpc' = "running"
        => acceptors'[i].chan = "pending" /\ acceptors'[i].cb = "waiting"]_vars

\* C10 (amended): the removal leaves the acceptor stored and unanswered, and
\* from then on it is answered only by a ConfirmCode request for A and closed
\* only by a new challenge for A or by the loop terminating; until one of
\* these the callback stays suspended.
C10_StrandedUntilAnsweredOrDropped ==
    [][\A i \in DOMAIN acceptors :
        LET a == acceptors[i].addr IN
        /\ last' = Step("DeviceRemoved", a, "removed") /\ Stored(a) = i
            => Stored(a)' = i /\ acceptors'[i].chan = acceptors[i].chan
        /\ acceptors[i].orphaned /\ acceptors[i].chan = "pending"
            => /\ acceptors'[i].cb = "waiting"
               /\ acceptors'[i].chan \in {"true", "false"} => Handled("ConfirmCode", a)
               /\ acceptors'[i].chan = "dropped"
                    => last' = Step("AgentEvent", a, "ok") \/ last'.r = "error"]_vars

C10_Witness ==
    \E i \in DOMAIN acceptors : Stranded(i) /\ Stored(acceptors[i].addr) = i

\* the record last written, its index being hi * 65536 + lo
WroteRecord(b, hi, lo, enable) ==
    /\ rfkill_dev # None
    /\ Unwrap(rfkill_dev).idx = U32(hi, lo)
    /\ Unwrap(rfkill_dev).enable = enable
    /\ Unwrap(rfkill_dev).bytes = b

\* the bytes written, everything but the order of the index bytes: 8 bytes, the
\* index in the first four, then type 2, operation 2, soft-block 0 to enable
\* and 1 to disable, hard-block 0
RecordLayout(b, i1, i2, i3, i4) ==
    /\ Len(b) = 8
    /\ \A i \in 1..8 : b[i] \in 0..255
    /\ b[i1] + 256 * b[i2] = Unwrap(rfkill_dev).idx.lo
    /\ b[i3] + 256 * b[i4] = Unwrap(rfkill_dev).idx.hi
    /\ b[5] = 2
    /\ b[6] = 2
    /\ b[7] = (IF Unwrap(rfkill_dev).enable THEN 0 ELSE 1)
    /\ b[8] = 0

\* C11 (as claimed): every record written is 8 bytes, the index first in
\* little-endian order, then 2, 2, the soft-block byte and 0; for index 3 the
\* bytes are 03 00 00 00 02 02 00 00 to enable and 03 00 00 00 02 02 01 00 to
\* disable.
C11_RecordIsLittleEndian ==
    rfkill_dev # None =>
        /\ RecordLayout(Unwrap(rfkill_dev).bytes, 1, 2, 3, 4)
        /\ Unwrap(rfkill_dev).idx = U32(0, 3) =>
            Unwrap(rfkill_dev).bytes =
                <<3, 0, 0, 0, 2, 2, IF Unwrap(rfkill_dev).enable THEN 0 ELSE 1, 0>>

\* C11 (amended): every record written is 8 bytes with no padding, the index
\* first in the byte order of the build target, then 2, 2, the soft-block byte
\* and 0; on a little-endian target the index is little-endian and the record
\* for index 3 is 03 00 00 00 02 02 00 00 to enable and 03 00 00 00 02 02 01 00
\* to disable; on a big-endian target the index bytes are reversed.
C11_RecordIsNativeEndian ==
    rfkill_dev # None =>
        /\ IF big_endian
           THEN RecordLayout(Unwrap(rfkill_dev).bytes, 4, 3, 2, 1)
           ELSE RecordLayout(Unwrap(rfkill_dev).bytes, 1, 2, 3, 4)
        /\ ~big_endian /\ Unwrap(rfkill_dev).idx = U32(0, 3) =>
            Unwrap(rfkill_dev).bytes =
                <<3, 0, 0, 0, 2, 2, IF Unwrap(rfkill_dev).enable THEN 0 ELSE 1, 0>>

\* index 3 was disabled on a little-endian target
C11_Witness ==
    /\ ~big_endian
    /\ WroteRecord(<<3, 0, 0, 0, 2, 2, 1, 0>>, 0, 3, FALSE)

\* the step just taken handled SetEnabled(v) and succeeded along path r
\* ("set_powered", "fallback_on" or "fallback_off")
HandledSetEnabled(v, r) ==
    /\ requests # <<>>
    /\ Head(requests) = ReqSetEnabled(v)
    /\ last' = Step("SetEnabled", "-", r)

\* C12 (as claimed): after a disable request that succeeded, through
\* set_powered or through the raw fallback, the listener table is empty, no
\* listener task is running, and the cache is as it was.
C12_DisableAbortsEveryListener ==
    [][HandledSetEnabled(FALSE, "set_powered") \/ HandledSetEnabled(FALSE, "fallback_off")
        => /\ device_handles' = {}
           /\ \A a \in Addr : listener_tasks'[a] = 0
           /\ device_map' = device_map]_vars

Settled ==
    /\ Running
    /\ device_map # None
    /\ output = <<>>
    /\ requests = <<>>
    /\ power_notes = <<>>
    /\ device_rx = <<>>
    /\ enabled = powered

\* C14 (as claimed): in every settled state a listener handle exists for an
\* address if and only if the address has a record in the cache and bluetooth
\* is enabled.
C14_HandleIffRecordAndEnabled ==
    Settled => \A a \in Addr : a \in device_handles <=> (CacheHas(a) /\ enabled)

\* C15 (as claimed): a connect or disconnect message for an address that has
\* no record in the cache changes nothing: the cache stays as it is and no
\* request is sent to the worker.
C15_UnknownAddressRequestIsDropped ==
    [][\A a \in Addr :
        /\ last'.h \in {"RequestConnectDevice", "RequestDisconnectDevice"}
        /\ last'.a = a
        /\ ~CacheHas(a)
        => device_map' = device_map /\ requests' = requests]_vars

\* C16 (as claimed): when an enable or disable request falls back to the raw
\* protocol and no rfkill entry matches the adapter, the loop keeps running
\* and no Error event is emitted.
C16_ResolutionFailureNotFatal ==
    [][last' = Step("SetEnabled", "-", "no_rfkill_entry")
        => wpc' = "running" /\ output' = output]_vars


\* ---------------------------------------------------------------- C17
\* the handlers the loop's select! dispatches to, one per arm and request
LoopHandlers ==
    {"SetDiscovery", "SetEnabled", "ConnectDevice", "DisconnectDevice", "ConfirmCode",
     "DeviceRemoved", "DeviceAdded", "Powered", "DeviceUpdate", "AgentEvent"}

Errors(q) == Cardinality({i \in 1..Len(q) : q[i] = EvError})

\* C17: when one iteration of the loop returns an error the loop emits exactly
\* one Error event and terminates without restarting; from then on no handler
\* of the loop runs, nothing is taken from requests, the adapter stream, the
\* discovery stream, device_rx or agent_rx, and the loop emits nothing more.
C17_ErrorEndsTheLoop ==
    [][/\ (wpc = "running" /\ last'.h \in LoopHandlers /\ last'.r = "error")
            => /\ wpc' = "terminated"
               /\ output' = Append(output, EvError)
       /\ (wpc = "running" /\ wpc' # "running")
            => /\ wpc' = "terminated"
               /\ last'.h \in LoopHandlers /\ last'.r = "error"
       /\ wpc = "terminated"
            => /\ wpc' = "terminated"
               /\ last'.h \notin LoopHandlers
               /\ output' = output \/ (output # <<>> /\ output' = Tail(output))
               /\ power_notes' = power_notes
               /\ UNCHANGED <<device_handles, discovery_events, confirmation_senders,
                              requests, device_rx, agent_rx>>]_vars

\* the loop has ended on an error of a handler, its one Error event is on the
\* stream, and the pairing agent has since raised a challenge that no
\* iteration takes
C17_Witness ==
    /\ wpc = "terminated"
    /\ Errors(output) = 1
    /\ last.h = "RequestConfirmation"
    /\ agent_rx = <<>>


\* ---------------------------------------------------------------- C18
\* C18: if a step of the initial setup fails, the event loop is never entered
\* and the outbound stream carries exactly one Error event and no Ready event:
\* the Error is the only event on the stream until the applet reads it, the
\* applet never receives a request sender, a cache or an enabled flag, and no
\* handler of the loop ever runs.
C18_SetupFailureOnlyError ==
    wpc = "failed"
        => /\ \/ output = <<EvError>> /\ app_alive
              \/ output = <<>> /\ ~app_alive
           /\ ~worker_tx /\ device_map = None /\ ~enabled
           /\ requests = <<>> /\ device_rx = <<>> /\ agent_rx = <<>>
           /\ device_handles = {} /\ ~discovery_events
           /\ last.h \notin LoopHandlers

\* the setup failed, and the applet has read the one event of the stream,
\* the Error
C18_Witness ==
    /\ wpc = "failed"
    /\ output = <<>>
    /\ last = Step("AppError", "-", "ok")


\* ---------------------------------------------------------------- C19
HandlesSetDiscovery(v) ==
    /\ wpc = "running"
    /\ last'.h = "SetDiscovery"
    /\ Head(requests).value = v

\* C19 as stated: a SetDiscovery handled while the adapter is not powered
\* creates no stream and leaves the discovery state exactly as it was.
C19_UnpoweredSetDiscoveryIsNoOp ==
    [][\A v \in BOOLEAN :
        HandlesSetDiscovery(v) /\ ~powered /\ last'.r # "error"
            => discovery_events' = discovery_events]_vars

\* C19: a SetDiscovery handled while the adapter is not powered, or with the
\* value false, creates no stream and leaves the worker with no discovery
\* stream (one that existed is dropped); SetDiscovery(true) handled while the
\* adapter is powered leaves the worker with a stream, unless a platform query
\* fails, which ends the loop; nothing else of the worker changes.
C19_SetDiscoverySetsTheStream ==
    [][\A v \in BOOLEAN :
        HandlesSetDiscovery(v)
            => \/ /\ last'.r # "error"
                  /\ discovery_events' = (v /\ powered)
                  /\ requests' = Tail(requests)
                  /\ UNCHANGED <<wpc, device_handles, listener_tasks,
                                 confirmation_senders, output, device_rx, agent_rx>>
               \/ /\ last'.r = "error"
                  /\ v
                  /\ wpc' = "terminated"]_vars

\* SetDiscovery(true) was handled while the adapter is not powered: the
\* worker has no stream
C19_Witness ==
    /\ last = Step("SetDiscovery", "-", "on")
    /\ ~powered
    /\ ~discovery_events
    /\ wpc = "running"


\* ---------------------------------------------------------------- C20
PopupCloses == popup /\ ~popup'

\* the applet handles Enabled(true) while the popup is open
EnabledWhilePopupOpen ==
    /\ last'.h = "AppEnabled"
    /\ output # <<>> /\ Head(output) = EvEnabled(TRUE)
    /\ popup

\* nothing is waiting between the applet and the worker
Quiescent == requests = <<>> /\ output = <<>> /\ power_notes = <<>>

\* C20 as stated: when the applet learns that the adapter became powered
\* while the popup is open it issues SetDiscovery(true); whenever the popup
\* closes it issues SetDiscovery(false); once that is handled no stream is
\* active; in every quiescent state with the popup closed discovery is
\* inactive.
C20_EveryCloseIssuesSetDiscovery ==
    /\ [](Quiescent /\ ~popup => ~discovery_events)
    /\ [][/\ EnabledWhilePopupOpen /\ wpc = "running"
                => requests' = Append(requests, ReqSetDiscovery(TRUE))
          /\ PopupCloses /\ wpc \in {"init", "running"}
                => requests' = Append(requests, ReqSetDiscovery(FALSE))
          /\ HandlesSetDiscovery(FALSE) => ~discovery_events']_vars

\* C20: when the applet learns that the adapter became powered while the
\* popup is open it issues SetDiscovery(true), and handling it while the
\* adapter is still powered makes discovery active unless a platform query
\* fails; when the popup closes after the applet has received Ready it issues
\* SetDiscovery(false), and before Ready it issues nothing; once
\* SetDiscovery(false) is handled no stream is active; in every state with the
\* popup closed and no request waiting, discovery is inactive.
C20_DiscoveryFollowsPopup ==
    /\ [](requests = <<>> /\ ~popup => ~discovery_events)
    /\ [][/\ EnabledWhilePopupOpen /\ wpc = "running"
                => worker_tx /\ requests' = Append(requests, ReqSetDiscovery(TRUE))
          /\ PopupCloses /\ worker_tx /\ wpc = "running"
                => requests' = Append(requests, ReqSetDiscovery(FALSE))
          /\ PopupCloses /\ ~worker_tx => requests' = requests
          /\ HandlesSetDiscovery(FALSE) => ~discovery_events'
          /\ HandlesSetDiscovery(TRUE) /\ last'.r # "error"
                => discovery_events' = powered]_vars

\* the popup has closed while the adapter is powered and the worker has
\* handled the SetDiscovery(false) the close issued: no stream is active
C20_Witness ==
    /\ last = Step("SetDiscovery", "-", "off")
    /\ ~popup
    /\ powered
    /\ worker_tx
    /\ requests = <<>>
    /\ ~discovery_events


\* ---------------------------------------------------------------- C21
Status(a) == Unwrap(device_map)[a].status

\* task t of the given kind goes from state x to state y, nothing else of the
\* task table changes
TaskMoves(kind, a, x, y) ==
    \E t \in DOMAIN connects :
        /\ connects[t].kind = kind
        /\ connects[t].addr = a
        /\ connects[t].state = x
        /\ connects' = [connects EXCEPT ![t].state = y]

\* C21: a handled cancel request issues a disconnect and emits nothing yet;
\* when the disconnect call returns, with success or with failure, the task
\* emits ConnectFailed for the address, and never before the call has
\* returned; the cancel task emits no other event; when the applet applies
\* the ConnectFailed the cached state of the device is Disconnected.
C21_CancelDisconnectsThenConnectFailed ==
    [][/\ last'.h = "CancelConnect" /\ last'.r = "spawned"
            => /\ output' = output
               /\ connects' = Append(connects, NewCancel(last'.a))
       /\ last'.h = "CancelDisconnectReturns"
            => /\ output' = output
               /\ last'.r \in {"ok", "failed"}
               /\ TaskMoves("cancel", last'.a, "disconnecting", "returned")
       /\ last'.h = "CancelSendsConnectFailed"
            => /\ output' = Append(output, EvConnectFailed(last'.a))
               /\ TaskMoves("cancel", last'.a, "returned", "done")
       /\ \A t \in DOMAIN connects :
            connects[t].kind = "cancel" /\ connects'[t] # connects[t]
                => last'.h \in {"CancelDisconnectReturns", "CancelSendsConnectFailed"}
       /\ last'.h = "AppConnectFailed" /\ CacheHas(last'.a)
            => device_map' # None /\ Unwrap(device_map')[last'.a].status = "Disconnected"]_vars

\* a cancel task whose disconnect call failed has sent its ConnectFailed, no
\* connect flow has given up, and the applet has applied the event: the
\* device is shown Disconnected
C21_Witness ==
    /\ last.h = "AppConnectFailed"
    /\ CacheHas(last.a)
    /\ Status(last.a) = "Disconnected"
    /\ \E t \in DOMAIN connects :
        connects[t] = [NewCancel(last.a) EXCEPT !.state = "done"]
    /\ \A t \in DOMAIN connects : connects[t].state # "failed"
    /\ ~pdev[last.a].connected


\* ---------------------------------------------------------------- C22
Shown(a, st) == CacheHas(a) /\ Status(a) = st

\* C22: under fairness, every device that enters Disconnecting eventually
\* reaches Disconnected (while the applet runs).
C22_DisconnectingEventuallyDisconnected ==
    \A a \in Subject :
        Shown(a, "Disconnecting") ~> (Shown(a, "Disconnected") \/ ~app_alive)


\* ---------------------------------------------------------------- C23
\* the record of a is in the cache before and after the step and its status
\* goes from something else to st
Becomes(a, st) ==
    /\ CacheHas(a)
    /\ device_map' # None
    /\ a \in DOMAIN Unwrap(device_map')
    /\ Unwrap(device_map')[a].status = st
    /\ Status(a) # st

\* C23: the transition of a cached state to Connecting is taken only from
\* Disconnected.
C23_ConnectingOnlyFromDisconnected ==
    [][\A a \in Addr : Becomes(a, "Connecting") => Status(a) = "Disconnected"]_vars


\* ---------------------------------------------------------------- C24
\* the applet applies the DeviceUpdate at the head of the stream
AppliesUpdate ==
    /\ last'.h = "AppDeviceUpdate"
    /\ output # <<>>
    /\ Head(output).type = "DeviceUpdate"

\* C24: after DeviceUpdate(A, u) is applied the field of A's record that u
\* names holds u's value, the other fields of the record and all other
\* records are unchanged; an update for an address with no record changes
\* nothing.
C24_UpdateSetsOnlyItsField ==
    [][AppliesUpdate
            => IF CacheHas(Head(output).addr)
               THEN LET a == Head(output).addr
                        u == Head(output).update
                        m == Unwrap(device_map)
                        n == Unwrap(device_map')
                    IN  /\ device_map' # None
                        /\ DOMAIN n = DOMAIN m
                        /\ \A b \in DOMAIN m \ {a} : n[b] = m[b]
                        /\ n[a].status =
                              IF u.kind = "Connected"
                              THEN (IF u.value THEN "Connected" ELSE "Disconnected")
                              ELSE m[a].status
                        /\ n[a].is_paired =
                              IF u.kind = "Paired" THEN u.value ELSE m[a].is_paired
                        /\ n[a].battery_percent =
                              IF u.kind = "Battery" THEN Some(u.value)
                              ELSE m[a].battery_percent
                        /\ n[a].display_code = m[a].display_code
               ELSE device_map' = device_map]_vars

\* a Connected(true) update has just been applied to a record that already
\* held a battery level and the paired flag from earlier updates
C24_Witness ==
    /\ last.h = "AppDeviceUpdate"
    /\ CacheHas(last.a)
    /\ Unwrap(device_map)[last.a] =
            [status |-> "Connected", battery_percent |-> Some(BatteryLevel),
             is_paired |-> TRUE, display_code |-> None]
    /\ \E t \in DOMAIN connects : connects[t].state = "connected"

\* an update for a device whose record has left the cache has been applied
C24_UpdateWithoutRecord ==
    /\ last.h = "AppDeviceUpdate"
    /\ device_map # None
    /\ ~CacheHas(last.a)


\* ---------------------------------------------------------------- C25
\* queue q of a source changes only by a producer appending, by the loop
\* taking its head, or by the loop ending
FifoStep(q, r) ==
    \/ Len(r) >= Len(q) /\ SubSeq(r, 1, Len(q)) = q
    \/ q # <<>> /\ r = Tail(q)
    \/ r = <<>> /\ wpc' = "terminated"

\* how many of the queued sources the step took an item from
Taken ==
    Cardinality({k \in 1..4 :
        LET q == <<requests, power_notes, device_rx, agent_rx>>[k]
            r == <<requests', power_notes', device_rx', agent_rx'>>[k]
        IN  q # <<>> /\ r = Tail(q) /\ Len(r) < Len(q)})

CancelledFlow(c, f) ==
    /\ connects[c].kind = "cancel"
    /\ connects[c].state = "done"
    /\ f < c
    /\ connects[f].kind = "connect"
    /\ connects[f].addr = connects[c].addr

\* C26: after a cancel request for A has been handled and its ConnectFailed
\* emitted, the connect flow started by the earlier connect request for A
\* makes no further connect attempt.
C26_CancelledFlowStops ==
    [][\A c \in DOMAIN connects : \A f \in DOMAIN connects :
        CancelledFlow(c, f) => connects'[f].attempt = connects[f].attempt]_vars


\* ---------------------------------------------------------------- C27
\* C27: in every reachable state there is at most one running listener task
\* per address, and every running listener task has its handle in the
\* listener table (while the loop runs).
C27_OneListenerPerAddressInTable ==
    wpc = "running"
        => \A a \in Addr :
                /\ listener_tasks[a] <= 1
                /\ listener_tasks[a] = 1 => a \in device_handles


\* ---------------------------------------------------------------- C28
\* the connect flows for a that have neither connected nor given up
InFlight(a) ==
    {t \in DOMAIN connects :
        /\ connects[t].kind = "connect"
        /\ connects[t].addr = a
        /\ connects[t].state \in {"trying", "sleeping"}}

\* C28: for every address at most one connect flow is in flight at any time.
C28_OneConnectFlowPerAddress ==
    \A a \in Addr : Cardinality(InFlight(a)) <= 1


\* ---------------------------------------------------------------- C29
\* the challenges for a that the loop has taken from agent_rx
HandledChallenges(a) ==
    {i \in DOMAIN acceptors :
        acceptors[i].addr = a /\ \A k \in DOMAIN agent_rx : agent_rx[k] # i}

Latest(S) == CHOOSE i \in S : \A j \in S : j <= i

\* C29: when the loop handles a challenge for A while an earlier acceptor for
\* A is stored unanswered, the earlier acceptor is replaced and dropped; its
\* callback then reports a rejection; a ConfirmCode(A, v) answers only the
\* latest challenge handled for A; and an acceptor once answered or dropped
\* never changes again.
C29_SecondChallengeReplacesFirst ==
    [][\A a \in Addr :
        /\ Handled("AgentEvent", a) /\ Stored(a) # NoSender
            => /\ Stored(a)' = Head(agent_rx)
               /\ Stored(a)' # Stored(a)
               /\ acceptors'[Stored(a)].chan # "pending"
               /\ acceptors[Stored(a)].chan = "pending"
                    => acceptors'[Stored(a)].chan = "dropped"
        /\ last' = Step("ConfirmCode", a, "answered")
            => /\ Stored(a) = Latest(HandledChallenges(a))
               /\ \A i \in DOMAIN acceptors :
                    acceptors'[i] # acceptors[i] => i = Stored(a)
        /\ \A i \in DOMAIN acceptors :
            /\ acceptors[i].chan # "pending" => acceptors'[i].chan = acceptors[i].chan
            /\ acceptors[i].chan = "dropped" /\ acceptors'[i].cb # acceptors[i].cb
                => acceptors'[i].cb = "rejected"]_vars

\* two challenges for one address: the earlier acceptor was dropped and its
\* callback has reported a rejection, and a ConfirmCode has just answered the
\* later one with accept
C29_Witness ==
    /\ last = Step("ConfirmCode", last.a, "answered")
    /\ Len(acceptors) = 2
    /\ acceptors[1].addr = last.a /\ acceptors[2].addr = last.a
    /\ acceptors[1].chan = "dropped" /\ acceptors[1].cb = "rejected"
    /\ acceptors[2].chan = "true"


\* ---------------------------------------------------------------- C30
Incremental ==
    {"DeviceAdded", "DeviceRemoved", "DeviceUpdate", "Enabled", "ConnectFailed",
     "ConfirmCode"}

Count(q, type) == Cardinality({i \in 1..Len(q) : q[i].type = type})

\* C30: on successful setup the stream starts with one Ready immediately
\* followed by one DeviceMap, no other Ready is ever sent, and every
\* incremental event comes after them: until the applet has applied the
\* snapshot the two are the head of the stream, and every incremental event
\* is applied to a cache that exists.
C30_ReadyThenSnapshotFirst ==
    /\ [](wpc \in {"running", "terminated"} /\ app_alive /\ device_map = None
            => /\ Len(output) >= 1
               /\ IF worker_tx
                  THEN output[1].type = "DeviceMap"
                  ELSE /\ Len(output) >= 2
                       /\ output[1].type = "Ready"
                       /\ output[2].type = "DeviceMap")
    /\ [][/\ Count(output', "Ready") > Count(output, "Ready")
                => /\ wpc = "init" /\ output = <<>>
                   /\ Len(output') = 2
                   /\ output'[1].type = "Ready" /\ output'[2].type = "DeviceMap"
          /\ wpc # "init" => Count(output', "Ready") <= Count(output, "Ready")
          /\ app_alive /\ output # <<>> /\ output' = Tail(output)
             /\ Head(output).type \in Incremental
                => worker_tx /\ device_map # None]_vars

\* the applet has applied an incremental event, a device update, to the
\* cache that the snapshot initialised
C30_Witness ==
    /\ last.h = "AppDeviceUpdate"
    /\ CacheHas(last.a)
    /\ worker_tx
    /\ Unwrap(device_map)[last.a].battery_percent = Some(BatteryLevel)

=============================================================================
